---- MODULE Spec2Model ----
(***************************************************************************)
(* Order placement and tenant isolation of the multi-tenant e-commerce     *)
(* backend (app/api/v1/orders.py, app/api/v1/products.py,                  *)
(* app/core/dependencies.py) over the store the default configuration      *)
(* selects (DATABASE_URL = sqlite:///./ecommerce.db, app/core/config.py).  *)
(*                                                                         *)
(* The store is the committed content of the tables products, customers,   *)
(* orders and order_items.  A request handler works on its own SQLAlchemy  *)
(* Session (autocommit=False, autoflush=False): objects it adds or changes *)
(* stay in the session until db.commit() writes them in one transaction.   *)
(* create_order commits up to three times and queries in between, so it is *)
(* modelled as one step per query/commit; several requests (one per worker *)
(* process) interleave at these steps.  The other handlers are one step.   *)
(*                                                                         *)
(* Money is counted in hundredths (Numeric(10, 2)); ids are the integer    *)
(* primary keys, which SQLite assigns as largest-id-in-the-table + 1.      *)
(***************************************************************************)
EXTENDS Integers, Sequences, FiniteSets, TLC

\* ---------------------------------------------------------------- bounds

NumRequests == 2      \* request slots that may be in flight together
MaxCalls == 2         \* create_order calls in one behaviour
MaxItems == 2         \* items of one create_order request
MaxStock == 2         \* largest initial stock of product 1
MaxQty == 2           \* largest quantity a request item asks for
MaxWrites == 1        \* committed product/order updates and deletes in one behaviour

\* ------------------------------------------------------------ the tenants

NoVendor == 0         \* vendor_id None (falsy, like 0)
NoStaff == 0          \* assigned_staff_id None

Requests == 1 .. NumRequests

\* UserRole and the users table; registration is not part of the engine, so
\* the table is fixed: an owner and two staff members of vendor 1, two
\* customers of vendor 1, one customer of vendor 2 and one user of no vendor.
UserRole == {"STORE_OWNER", "STAFF", "CUSTOMER"}

users ==
  ( 1 :> [role |-> "STORE_OWNER", vendor_id |-> 1] ) @@
  ( 2 :> [role |-> "STAFF",       vendor_id |-> 1] ) @@
  ( 3 :> [role |-> "CUSTOMER",    vendor_id |-> 1] ) @@
  ( 4 :> [role |-> "CUSTOMER",    vendor_id |-> 1] ) @@
  ( 5 :> [role |-> "CUSTOMER",    vendor_id |-> 2] ) @@
  ( 6 :> [role |-> "CUSTOMER",    vendor_id |-> NoVendor] ) @@
  ( 7 :> [role |-> "STAFF",       vendor_id |-> 1] )

UserIds == DOMAIN users

\* User.email is unique per user: the user's id stands for it.
Email(u) == u

\* ------------------------------------------------------------- the store

VARIABLES
  products,      \* id -> [vendor_id, price, stock_quantity, is_active]
  customers,     \* id -> [vendor_id, user_id, email]
  orders,        \* id -> [vendor_id, customer_id, status, total_amount, assigned_staff_id]
  order_items,   \* id -> [order_id, product_id, quantity, unit_price, subtotal]
  req,           \* request slot -> the create_order call running in it
  calls,         \* create_order calls started so far
  writes         \* committed updates and deletes of the one-step handlers so far

vars == <<products, customers, orders, order_items, req, calls, writes>>

Max(S) == CHOOSE x \in S : \A y \in S : y <= x
Min(S) == CHOOSE x \in S : \A y \in S : x <= y

\* Integer primary key of a new row (SQLite rowid: largest id in use + 1).
NextId(table) == IF DOMAIN table = {} THEN 1 ELSE Max(DOMAIN table) + 1

Remove(table, ids) == [i \in DOMAIN table \ ids |-> table[i]]

ListPrice == 10
ProductIds == 1 .. 4          \* 4 names no product

\* ------------------------------------------------------------- requests

EmptyMap == [x \in {} |-> 0]

\* A slot holds the handler that runs in it (op), its position (pc), the part
\* of order_data.items the loop has reached (items), its session (customer_id,
\* order_id, the loaded products, the pending order items, total_amount, and
\* data: the columns of the order it has set to a new value) and, once it is
\* done, the response.  before is not program state: it keeps the store as it
\* was when the call began, for the properties that compare.
NoStore == [products |-> EmptyMap, customers |-> EmptyMap,
            orders |-> EmptyMap, order_items |-> EmptyMap]

IdleReq ==
  [op |-> "", pc |-> "idle", user |-> 0, customer_id |-> 0, order_id |-> 0,
   data |-> EmptyMap, items |-> <<>>, loaded |-> EmptyMap, pending |-> <<>>, total_amount |-> 0,
   status_code |-> 0, detail |-> "", before |-> NoStore]

\* What a request item may carry (OrderItemCreate): product_id, quantity and
\* unit_price are free input.  Product 1 is ordered in every quantity and at
\* either price; products 2..4 (inactive, other vendor, missing) once.
UnitPrices == {ListPrice, 1}
ItemInputs ==
  [product_id : {1}, quantity : 1 .. MaxQty, unit_price : UnitPrices]
  \cup [product_id : ProductIds \ {1}, quantity : {1}, unit_price : {ListPrice}]

\* The users that place orders.
OrderCallers == {3, 4, 5, 6}

Init ==
  /\ \E s \in 0 .. MaxStock :
       products =
         ( 1 :> [vendor_id |-> 1, price |-> ListPrice, stock_quantity |-> s,
                 is_active |-> TRUE] ) @@
         ( 2 :> [vendor_id |-> 1, price |-> ListPrice, stock_quantity |-> 1,
                 is_active |-> FALSE] ) @@
         ( 3 :> [vendor_id |-> 2, price |-> ListPrice, stock_quantity |-> 1,
                 is_active |-> TRUE] )
  /\ customers = ( 1 :> [vendor_id |-> 1, user_id |-> 3, email |-> Email(3)] )
  /\ orders = EmptyMap
  /\ order_items = EmptyMap
  /\ req = [r \in Requests |-> IdleReq]
  /\ calls = 0
  /\ writes = 0

\* ------------------------------------------------- create_order, by steps

\* The HTTP response of a finished request; the session is closed.
Finished(q, code, why) ==
  [q EXCEPT !.pc = "done", !.status_code = code, !.detail = why,
            !.loaded = EmptyMap, !.pending = <<>>, !.total_amount = 0]

\* db.query(Customer).filter(vendor_id == ..., user_id == ...).first()
CustomerOf(u) ==
  {c \in DOMAIN customers :
     /\ customers[c].vendor_id = users[u].vendor_id
     /\ customers[c].user_id = u}

Store ==
  [products |-> products, customers |-> customers, orders |-> orders,
   order_items |-> order_items]

\* Lines 85-95: the vendor check and the customer lookup.  Slots are
\* interchangeable, so a request takes the lowest free one.
create_order_begin(r, u) ==
  LET q == [IdleReq EXCEPT !.op = "create_order", !.user = u,
                          !.before = Store] IN
  /\ req[r].pc = "idle"
  /\ \A r2 \in Requests : r2 < r => req[r2].pc # "idle"
  /\ calls < MaxCalls
  /\ calls' = calls + 1
  /\ IF users[u].vendor_id = NoVendor
       THEN req' = [req EXCEPT ![r] = Finished(q, 403, "no_vendor")]
       ELSE IF CustomerOf(u) = {}
         THEN req' = [req EXCEPT ![r] = [q EXCEPT !.pc = "new_customer"]]
         ELSE req' = [req EXCEPT ![r] =
                        [q EXCEPT !.pc = "order",
                                  !.customer_id = Min(CustomerOf(u))]]
  /\ UNCHANGED <<products, customers, orders, order_items, writes>>

create_order_new_customer_NoConstraint(r) ==
  LET q == req[r]
      id == NextId(customers)
  IN /\ q.pc = "new_customer"
     /\ customers' = customers @@
          (id :> [vendor_id |-> users[q.user].vendor_id, user_id |-> q.user,
                  email |-> Email(q.user)])
     /\ req' = [req EXCEPT ![r] = [q EXCEPT !.pc = "order", !.customer_id = id]]
     /\ UNCHANGED <<products, orders, order_items, calls, writes>>

\* Lines 97-107: no Customer row was found, so one is added and committed.
\* customers carries UniqueConstraint(vendor_id, email): when another request
\* committed the same pair since the lookup, the INSERT raises IntegrityError,
\* which nothing catches (500).
create_order_new_customer(r) ==
  LET q == req[r]
      u == q.user
      v == users[u].vendor_id
      id == NextId(customers)
      dup == \E c \in DOMAIN customers :
               customers[c].vendor_id = v /\ customers[c].email = Email(u)
  IN /\ q.pc = "new_customer"
     /\ IF dup
          THEN /\ req' = [req EXCEPT ![r] = Finished(q, 500, "integrity_error")]
               /\ UNCHANGED customers
          ELSE /\ customers' = customers @@
                    (id :> [vendor_id |-> v, user_id |-> u, email |-> Email(u)])
               /\ req' = [req EXCEPT ![r] =
                            [q EXCEPT !.pc = "order", !.customer_id = id]]
     /\ UNCHANGED <<products, orders, order_items, calls, writes>>

\* OrderBase.status: the initial status a request may name.
CreateStatuses == {"PENDING"}

create_order_insert_order_AnyCustomer(r, st) ==
  LET q == req[r]
      id == NextId(orders)
  IN /\ q.pc = "order"
     /\ orders' = orders @@
          (id :> [vendor_id |-> users[q.user].vendor_id,
                  customer_id |-> Min(DOMAIN customers), status |-> st,
                  total_amount |-> 0, assigned_staff_id |-> NoStaff])
     /\ req' = [req EXCEPT ![r] = [q EXCEPT !.pc = "items", !.order_id = id]]
     /\ UNCHANGED <<products, customers, order_items, calls, writes>>

\* Lines 116-126: the Order row is added and committed before any item is
\* looked at; total_amount takes its column default 0.00.
create_order_insert_order(r, st) ==
  LET q == req[r]
      id == NextId(orders)
  IN /\ q.pc = "order"
     /\ orders' = orders @@
          (id :> [vendor_id |-> users[q.user].vendor_id,
                  customer_id |-> q.customer_id, status |-> st,
                  total_amount |-> 0, assigned_staff_id |-> NoStaff])
     /\ req' = [req EXCEPT ![r] = [q EXCEPT !.pc = "items", !.order_id = id]]
     /\ UNCHANGED <<products, customers, order_items, calls, writes>>

\* The Product object the session holds for id p after
\* db.query(Product).filter(Product.id == p).first(): the object already in
\* the session's identity map, with the stock this request has written to it,
\* or else the committed row.
SessionProduct(q, p) ==
  IF p \in DOMAIN q.loaded
    THEN q.loaded[p]
    ELSE [vendor_id |-> products[p].vendor_id,
          is_active |-> products[p].is_active,
          stock_quantity |-> products[p].stock_quantity,
          committed |-> products[p].stock_quantity]

InsufficientStock_OffByOne(product, item) ==
  product.stock_quantity + 1 < item.quantity

\* Line 156: the stock check.
InsufficientStock(product, item) == product.stock_quantity < item.quantity

DecrementedStock_ByOne(product, item) == product.stock_quantity - 1

\* Line 165: the new stock, computed in the handler from the value it read.
DecrementedStock(product, item) == product.stock_quantity - item.quantity

\* Lines 170-177: the OrderItem built from the request item.
NewOrderItem(q, item) ==
  [order_id |-> q.order_id, product_id |-> item.product_id,
   quantity |-> item.quantity, unit_price |-> item.unit_price,
   subtotal |-> item.unit_price * item.quantity]

create_order_item_StockFirst(r, item) ==
  LET q == [req[r] EXCEPT !.items = Append(@, item)]
      p == item.product_id
  IN /\ req[r].pc = "items"
     /\ Len(req[r].items) < MaxItems
     /\ IF p \notin DOMAIN products
          THEN req' = [req EXCEPT ![r] =
                 [q EXCEPT !.pc = "abort", !.status_code = 404,
                           !.detail = "product_not_found"]]
          ELSE LET product == SessionProduct(q, p) IN
            IF product.vendor_id # users[q.user].vendor_id
              THEN req' = [req EXCEPT ![r] =
                     [q EXCEPT !.pc = "abort", !.status_code = 403,
                               !.detail = "wrong_vendor"]]
            ELSE IF InsufficientStock(product, item)
              THEN req' = [req EXCEPT ![r] =
                     [q EXCEPT !.pc = "abort", !.status_code = 400,
                               !.detail = "insufficient_stock"]]
            ELSE IF ~product.is_active
              THEN req' = [req EXCEPT ![r] =
                     [q EXCEPT !.pc = "abort", !.status_code = 400,
                               !.detail = "not_active"]]
            ELSE req' = [req EXCEPT ![r] =
                     [q EXCEPT
                        !.loaded = (p :> [product EXCEPT !.stock_quantity =
                                            DecrementedStock(product, item)])
                                   @@ q.loaded,
                        !.pending = Append(q.pending, NewOrderItem(q, item)),
                        !.total_amount = q.total_amount
                                         + item.unit_price * item.quantity]]
     /\ UNCHANGED <<products, customers, orders, order_items, calls, writes>>

\* Lines 130-179: one turn of the loop over order_data.items.  The checks run
\* in the order not found, vendor, active, stock; a failed check leaves the
\* request about to delete its order (the next step).
create_order_item(r, item) ==
  LET q == [req[r] EXCEPT !.items = Append(@, item)]
      p == item.product_id
  IN /\ req[r].pc = "items"
     /\ Len(req[r].items) < MaxItems
     /\ IF p \notin DOMAIN products
          THEN req' = [req EXCEPT ![r] =
                 [q EXCEPT !.pc = "abort", !.status_code = 404,
                           !.detail = "product_not_found"]]
          ELSE LET product == SessionProduct(q, p) IN
            IF product.vendor_id # users[q.user].vendor_id
              THEN req' = [req EXCEPT ![r] =
                     [q EXCEPT !.pc = "abort", !.status_code = 403,
                               !.detail = "wrong_vendor"]]
            ELSE IF ~product.is_active
              THEN req' = [req EXCEPT ![r] =
                     [q EXCEPT !.pc = "abort", !.status_code = 400,
                               !.detail = "not_active"]]
            ELSE IF InsufficientStock(product, item)
              THEN req' = [req EXCEPT ![r] =
                     [q EXCEPT !.pc = "abort", !.status_code = 400,
                               !.detail = "insufficient_stock"]]
            ELSE req' = [req EXCEPT ![r] =
                     [q EXCEPT
                        !.loaded = (p :> [product EXCEPT !.stock_quantity =
                                            DecrementedStock(product, item)])
                                   @@ q.loaded,
                        !.pending = Append(q.pending, NewOrderItem(q, item)),
                        !.total_amount = q.total_amount
                                         + item.unit_price * item.quantity]]
     /\ UNCHANGED <<products, customers, orders, order_items, calls, writes>>

\* ---- what db.commit() flushes for a request

\* Products whose stock_quantity the request changed.
DirtyProducts(q) ==
  {p \in DOMAIN q.loaded : q.loaded[p].stock_quantity # q.loaded[p].committed}

\* UPDATE products SET stock_quantity = <value> WHERE id = p matches no row
\* when p was deleted meanwhile: StaleDataError, the transaction rolls back.
StaleProducts(q) == \E p \in DirtyProducts(q) : p \notin DOMAIN products

FlushProducts(q) ==
  [p \in DOMAIN products |->
     IF p \in DirtyProducts(q)
       THEN [products[p] EXCEPT !.stock_quantity = q.loaded[p].stock_quantity]
       ELSE products[p]]

\* INSERT of the pending OrderItems, in the order they were added.
FlushItems(q) ==
  LET base == NextId(order_items)
      new == base .. (base + Len(q.pending) - 1)
  IN [i \in DOMAIN order_items \cup new |->
        IF i \in DOMAIN order_items THEN order_items[i]
        ELSE q.pending[i - base + 1]]

\* Order.items (cascade="all, delete-orphan") as db.delete(order) loads it:
\* the committed rows with this order_id.  The request's own pending items
\* are not among them (autoflush=False, and they were given order_id only).
ItemsOf(o) == {i \in DOMAIN order_items : order_items[i].order_id = o}

\* The order items after the failure path's commit (db.delete(order);
\* db.commit()): the session still holds the stock changes and the OrderItems
\* of the items that passed, and the commit flushes them together with the
\* DELETE of the order and of the items db.delete(order) loaded.
AbortItems(q) == Remove(FlushItems(q), ItemsOf(q.order_id))

\* Lines 133-135, 139-144, 148-153, 157-162: db.delete(order); db.commit();
\* raise HTTPException.
create_order_abort(r) ==
  LET q == req[r] IN
  /\ q.pc = "abort"
  /\ IF StaleProducts(q)
       THEN /\ req' = [req EXCEPT ![r] = Finished(q, 500, "stale_data")]
            /\ UNCHANGED <<products, orders, order_items>>
       ELSE /\ products' = FlushProducts(q)
            /\ order_items' = AbortItems(q)
            /\ orders' = Remove(orders, {q.order_id})
            /\ req' = [req EXCEPT ![r] = Finished(q, q.status_code, q.detail)]
  /\ UNCHANGED <<customers, calls, writes>>

\* Lines 181-186: order.total_amount = total_amount; db.commit();
\* db.refresh(order); return order.  The UPDATE of the order is emitted only
\* when the total differs from the loaded 0.00.
create_order_commit(r) ==
  LET q == req[r]
      staleOrder == q.total_amount # 0 /\ q.order_id \notin DOMAIN orders
  IN
  /\ q.pc = "items"
  /\ IF StaleProducts(q) \/ staleOrder
       THEN /\ req' = [req EXCEPT ![r] = Finished(q, 500, "stale_data")]
            /\ UNCHANGED <<products, orders, order_items>>
       ELSE /\ products' = FlushProducts(q)
            /\ order_items' = FlushItems(q)
            /\ orders' = [o \in DOMAIN orders |->
                            IF o = q.order_id
                              THEN [orders[o] EXCEPT
                                      !.total_amount = q.total_amount]
                              ELSE orders[o]]
            /\ req' = [req EXCEPT ![r] =
                 IF q.order_id \in DOMAIN orders
                   THEN Finished(q, 201, "created")
                   ELSE Finished(q, 500, "refresh_failed")]
  /\ UNCHANGED <<customers, calls, writes>>

\* The response leaves; the slot is free for the next request.
respond(r) ==
  /\ req[r].pc = "done"
  /\ req' = [req EXCEPT ![r] = IdleReq]
  /\ UNCHANGED <<products, customers, orders, order_items, calls, writes>>

create_order(r) ==
  \/ \E u \in OrderCallers : create_order_begin(r, u)
  \/ create_order_new_customer(r)
  \/ \E st \in CreateStatuses : create_order_insert_order(r, st)
  \/ \E item \in ItemInputs : create_order_item(r, item)
  \/ create_order_abort(r)
  \/ create_order_commit(r)
  \/ respond(r)

\* create_order alone, requests interleaving.
NextCreate == \E r \in Requests : create_order(r)

SpecCreate == Init /\ [][NextCreate]_vars

\* create_order alone, one request after the other.
SoloRequests == {1}

NextSeq == \E r \in SoloRequests : create_order(r)

SpecSeq == Init /\ [][NextSeq]_vars

\* ------------------------------------------------ roles and tenant access

\* app/core/dependencies.py
require_store_owner(u) == users[u].role = "STORE_OWNER"
require_staff(u) == users[u].role \in {"STORE_OWNER", "STAFF"}

\* An object is the record of its attributes (hasattr(obj, a) is
\* a \in DOMAIN obj); None has no attributes.
None == EmptyMap
HasAttr(obj, a) == a \in DOMAIN obj

\* Lines 72-78 of check_tenant_access: the vendor id taken from the object.
\* The first attribute that exists decides, also when its value is None.
ObjectVendorId(obj) ==
  IF HasAttr(obj, "vendor_id") THEN obj.vendor_id
  ELSE IF HasAttr(obj, "customer") /\ HasAttr(obj.customer, "vendor_id")
    THEN obj.customer.vendor_id
  ELSE IF HasAttr(obj, "user") /\ HasAttr(obj.user, "vendor_id")
    THEN obj.user.vendor_id
  ELSE NoVendor

check_tenant_access_NoneEqual(obj, u) ==
  users[u].vendor_id = ObjectVendorId(obj)

\* check_tenant_access(obj, current_user): both ids truthy and equal.
check_tenant_access(obj, u) ==
  /\ ObjectVendorId(obj) # NoVendor
  /\ users[u].vendor_id # NoVendor
  /\ users[u].vendor_id = ObjectVendorId(obj)

\* setattr(obj, field, value) for the fields the request set (exclude_unset).
SetFields(row, data) ==
  [f \in DOMAIN row |-> IF f \in DOMAIN data THEN data[f] ELSE row[f]]

\* ------------------------------------------------------ the read handlers

list_orders_NoCustomerFilter(u) ==
  IF users[u].vendor_id = NoVendor THEN {}
  ELSE LET mine == {o \in DOMAIN orders :
                      orders[o].vendor_id = users[u].vendor_id}
       IN IF users[u].role = "STAFF"
            THEN {o \in mine : orders[o].assigned_staff_id \in {u, NoStaff}}
          ELSE mine

\* list_orders: the ids of the orders the query selects, before status_filter,
\* offset and limit take some of them away.
list_orders(u) ==
  IF users[u].vendor_id = NoVendor THEN {}
  ELSE LET mine == {o \in DOMAIN orders :
                      orders[o].vendor_id = users[u].vendor_id}
       IN IF users[u].role = "CUSTOMER"
            THEN IF CustomerOf(u) = {} THEN {}
                 ELSE {o \in mine :
                         orders[o].customer_id = Min(CustomerOf(u))}
          ELSE IF users[u].role = "STAFF"
            THEN {o \in mine : orders[o].assigned_staff_id \in {u, NoStaff}}
          ELSE mine

\* get_order: the status of the response.
get_order_response(u, o) ==
  IF o \notin DOMAIN orders THEN 404
  ELSE IF ~check_tenant_access(orders[o], u) THEN 403
  ELSE IF /\ users[u].role = "CUSTOMER"
          /\ \/ CustomerOf(u) = {}
             \/ orders[o].customer_id # Min(CustomerOf(u))
    THEN 403
  ELSE 200

\* get_order: the orders it returns (one or none).
get_order(u, o) == IF get_order_response(u, o) = 200 THEN {o} ELSE {}

my_orders_response(u) == IF users[u].role # "CUSTOMER" THEN 403 ELSE 200

\* my_orders: the orders the handler returns.
my_orders(u) ==
  IF my_orders_response(u) # 200 \/ CustomerOf(u) = {} THEN {}
  ELSE {o \in DOMAIN orders : orders[o].customer_id = Min(CustomerOf(u))}

\* app/api/v1/products.py, customers.py, users.py: what the list and get
\* endpoints return (ids), before search, offset and limit.
list_products(u) ==
  IF users[u].vendor_id = NoVendor THEN {}
  ELSE {p \in DOMAIN products : products[p].vendor_id = users[u].vendor_id}

get_product_response(u, p) ==
  IF p \notin DOMAIN products THEN 404
  ELSE IF ~check_tenant_access(products[p], u) THEN 403
  ELSE 200

get_product(u, p) == IF get_product_response(u, p) = 200 THEN {p} ELSE {}

list_customers(u) ==
  IF users[u].vendor_id = NoVendor THEN {}
  ELSE LET mine == {c \in DOMAIN customers :
                      customers[c].vendor_id = users[u].vendor_id}
       IN IF users[u].role = "CUSTOMER"
            THEN {c \in mine : customers[c].user_id = u}
          ELSE mine

get_customer_response(u, c) ==
  IF c \notin DOMAIN customers THEN 404
  ELSE IF users[u].role = "CUSTOMER" /\ customers[c].user_id # u THEN 403
  ELSE IF ~check_tenant_access(customers[c], u) THEN 403
  ELSE 200

get_customer(u, c) == IF get_customer_response(u, c) = 200 THEN {c} ELSE {}

list_users(u) ==
  IF ~require_store_owner(u) \/ users[u].vendor_id = NoVendor THEN {}
  ELSE {x \in UserIds : users[x].vendor_id = users[u].vendor_id}

\* get_user compares the two vendor ids with != only.
get_user_response(u, x) ==
  IF ~require_store_owner(u) THEN 403
  ELSE IF x \notin UserIds THEN 404
  ELSE IF users[x].vendor_id # users[u].vendor_id THEN 403
  ELSE 200

get_user(u, x) == IF get_user_response(u, x) = 200 THEN {x} ELSE {}

\* ------------------------------------------- the one-step write handlers

OrderIds == 1 .. (MaxCalls + 1)

\* OrderUpdate bodies (the fields set; exclude_unset keeps only these).
OrderUpdates ==
  {[status |-> "CANCELLED"], [assigned_staff_id |-> 2],
   [assigned_staff_id |-> 5]}

update_order_response(u, o) ==
  IF ~require_staff(u) THEN 403
  ELSE IF o \notin DOMAIN orders THEN 404
  ELSE IF ~check_tenant_access(orders[o], u) THEN 403
  ELSE IF /\ users[u].role = "STAFF"
          /\ orders[o].assigned_staff_id # NoStaff
          /\ orders[o].assigned_staff_id # u
    THEN 403
  ELSE 200

update_order(u, o, data) ==
  /\ writes < MaxWrites
  /\ IF update_order_response(u, o) = 200
       THEN /\ orders' = [orders EXCEPT ![o] = SetFields(orders[o], data)]
            /\ writes' = writes + 1
       ELSE UNCHANGED <<orders, writes>>
  /\ UNCHANGED <<products, customers, order_items, req, calls>>

delete_order_response_StaffAllowed(u, o) ==
  IF ~require_staff(u) THEN 403
  ELSE IF o \notin DOMAIN orders THEN 404
  ELSE IF ~check_tenant_access(orders[o], u) THEN 403
  ELSE 204

delete_order_response(u, o) ==
  IF ~require_store_owner(u) THEN 403
  ELSE IF o \notin DOMAIN orders THEN 404
  ELSE IF ~check_tenant_access(orders[o], u) THEN 403
  ELSE 204

delete_order_NoCascade(u, o) ==
  /\ writes < MaxWrites
  /\ IF delete_order_response(u, o) = 204
       THEN /\ orders' = Remove(orders, {o})
            /\ writes' = writes + 1
       ELSE UNCHANGED <<orders, writes>>
  /\ UNCHANGED <<products, customers, order_items, req, calls>>

\* db.delete(order) takes the order's committed items with it (cascade).
delete_order(u, o) ==
  /\ writes < MaxWrites
  /\ IF delete_order_response(u, o) = 204
       THEN /\ orders' = Remove(orders, {o})
            /\ order_items' = Remove(order_items, ItemsOf(o))
            /\ writes' = writes + 1
       ELSE UNCHANGED <<orders, order_items, writes>>
  /\ UNCHANGED <<products, customers, req, calls>>

\* ProductUpdate bodies.
ProductUpdates ==
  {[price |-> 2 * ListPrice], [is_active |-> FALSE], [is_active |-> TRUE],
   [stock_quantity |-> -1]}

update_product_response(u, p) ==
  IF ~require_staff(u) THEN 403
  ELSE IF p \notin DOMAIN products THEN 404
  ELSE IF ~check_tenant_access(products[p], u) THEN 403
  ELSE 200

update_product_Reprices(u, p, data) ==
  /\ writes < MaxWrites
  /\ IF update_product_response(u, p) = 200
       THEN /\ products' = [products EXCEPT ![p] = SetFields(products[p], data)]
            /\ order_items' =
                 [i \in DOMAIN order_items |->
                    IF order_items[i].product_id = p
                      THEN [order_items[i] EXCEPT
                              !.unit_price = products'[p].price]
                      ELSE order_items[i]]
            /\ writes' = writes + 1
       ELSE UNCHANGED <<products, order_items, writes>>
  /\ UNCHANGED <<customers, orders, req, calls>>

update_product(u, p, data) ==
  /\ writes < MaxWrites
  /\ IF update_product_response(u, p) = 200
       THEN /\ products' = [products EXCEPT ![p] = SetFields(products[p], data)]
            /\ writes' = writes + 1
       ELSE UNCHANGED <<products, writes>>
  /\ UNCHANGED <<customers, orders, order_items, req, calls>>

update_stock_response(u, p) ==
  IF ~require_staff(u) THEN 403
  ELSE IF p \notin DOMAIN products THEN 404
  ELSE IF ~check_tenant_access(products[p], u) THEN 403
  ELSE 200

\* update_stock: quantity is validated ge=0 before the handler runs.
update_stock(u, p, quantity) ==
  /\ writes < MaxWrites
  /\ IF update_stock_response(u, p) = 200
       THEN /\ products' = [products EXCEPT ![p].stock_quantity = quantity]
            /\ writes' = writes + 1
       ELSE UNCHANGED <<products, writes>>
  /\ UNCHANGED <<customers, orders, order_items, req, calls>>

\* Product.order_items has no delete cascade: deleting a product that
\* committed order items reference sets their product_id to NULL, which the
\* NOT NULL column refuses (IntegrityError, 500, rolled back).
delete_product_response(u, p) ==
  IF ~require_staff(u) \/ ~require_store_owner(u) THEN 403
  ELSE IF p \notin DOMAIN products THEN 404
  ELSE IF ~check_tenant_access(products[p], u) THEN 403
  ELSE IF \E i \in DOMAIN order_items : order_items[i].product_id = p THEN 500
  ELSE 204

delete_product(u, p) ==
  /\ writes < MaxWrites
  /\ IF delete_product_response(u, p) = 204
       THEN /\ products' = Remove(products, {p})
            /\ writes' = writes + 1
       ELSE UNCHANGED <<products, writes>>
  /\ UNCHANGED <<customers, orders, order_items, req, calls>>

\* Every handler: one create_order at a time, the one-step handlers
\* interleaving with its steps.
Next ==
  \/ \E r \in SoloRequests : create_order(r)
  \/ \E u \in UserIds, o \in OrderIds, data \in OrderUpdates :
       update_order(u, o, data)
  \/ \E u \in UserIds, o \in OrderIds : delete_order(u, o)
  \/ \E u \in UserIds, p \in ProductIds, data \in ProductUpdates :
       update_product(u, p, data)
  \/ \E u \in UserIds, p \in ProductIds, quantity \in 0 .. MaxStock :
       update_stock(u, p, quantity)
  \/ \E u \in UserIds, p \in ProductIds : delete_product(u, p)

Spec == Init /\ [][Next]_vars

\* ------------------------------------- the order updates, by their steps

\* update_order, update_order_status and assign_staff load the order, check
\* it, set attributes on the loaded object and then db.commit(): a second
\* request's commit can fall between the load and the commit.  The UPDATE
\* the commit emits names only the columns whose value was changed.

OrderStatus ==
  {"PENDING", "CONFIRMED", "PROCESSING", "SHIPPED", "DELIVERED", "CANCELLED"}

\* status_data.get("status"): "" is a body without a status.
StatusInputs == {"", "BOGUS", "CONFIRMED"}

\* assign_data.get("staff_id"): none, the two staff members, a customer.
StaffInputs == {NoStaff, 2, 7, 3}

\* The columns of row that data sets to another value than the loaded one.
Changed(row, data) ==
  [f \in {g \in DOMAIN data : data[g] # row[g]} |-> data[f]]

OrderRequest(op, u, o) ==
  [IdleReq EXCEPT !.op = op, !.user = u, !.order_id = o, !.before = Store]

\* A request for an order that was refused (code) or that holds the loaded
\* order with data set on it, about to commit.
order_begin(r, q, code, data) ==
  /\ req[r].pc = "idle"
  /\ \A r2 \in Requests : r2 < r => req[r2].pc # "idle"
  /\ calls < MaxCalls
  /\ calls' = calls + 1
  /\ req' = [req EXCEPT ![r] =
       IF code = 200
         THEN [q EXCEPT !.pc = "commit",
                        !.data = Changed(orders[q.order_id], data)]
         ELSE Finished(q, code, "refused")]
  /\ UNCHANGED <<products, customers, orders, order_items, writes>>

\* update_order, lines 229-244.
update_order_begin(r, u, o, data) ==
  order_begin(r, OrderRequest("update_order", u, o),
              update_order_response(u, o), data)

update_order_status_response_NoWayBack(u, o, new_status) ==
  IF ~require_staff(u) THEN 403
  ELSE IF o \notin DOMAIN orders THEN 404
  ELSE IF ~check_tenant_access(orders[o], u) THEN 403
  ELSE IF /\ users[u].role = "STAFF"
          /\ orders[o].assigned_staff_id # NoStaff
          /\ orders[o].assigned_staff_id # u
    THEN 403
  ELSE IF new_status = "" THEN 400
  ELSE IF new_status \notin OrderStatus THEN 400
  ELSE IF orders[o].status \in {"DELIVERED", "CANCELLED"} THEN 400
  ELSE 200

\* update_order_status, lines 292-314: the status of the response.
update_order_status_response(u, o, new_status) ==
  IF ~require_staff(u) THEN 403
  ELSE IF o \notin DOMAIN orders THEN 404
  ELSE IF ~check_tenant_access(orders[o], u) THEN 403
  ELSE IF /\ users[u].role = "STAFF"
          /\ orders[o].assigned_staff_id # NoStaff
          /\ orders[o].assigned_staff_id # u
    THEN 403
  ELSE IF new_status = "" THEN 400
  ELSE IF new_status \notin OrderStatus THEN 400
  ELSE 200

update_order_status_begin(r, u, o, new_status) ==
  order_begin(r, OrderRequest("update_order_status", u, o),
              update_order_status_response(u, o, new_status),
              [status |-> new_status])

\* assign_staff, lines 339-358: the status of the response.  A staff_id must
\* name a STAFF user of the caller's vendor.
assign_staff_response(u, o, staff_id) ==
  IF ~require_store_owner(u) THEN 403
  ELSE IF o \notin DOMAIN orders THEN 404
  ELSE IF ~check_tenant_access(orders[o], u) THEN 403
  ELSE IF /\ staff_id # NoStaff
          /\ ~ /\ staff_id \in UserIds
               /\ users[staff_id].vendor_id = users[u].vendor_id
               /\ users[staff_id].role = "STAFF"
    THEN 404
  ELSE 200

assign_staff_begin(r, u, o, staff_id) ==
  order_begin(r, OrderRequest("assign_staff", u, o),
              assign_staff_response(u, o, staff_id),
              [assigned_staff_id |-> staff_id])

\* db.commit(); db.refresh(order); return order.  The UPDATE matches the row
\* that has the order's id now; with no row it is a StaleDataError, and with
\* nothing to update db.refresh finds no row (both 500).
order_commit(r) ==
  LET q == req[r]
      o == q.order_id
  IN /\ q.pc = "commit"
     /\ IF o \notin DOMAIN orders
          THEN /\ req' = [req EXCEPT ![r] =
                    Finished(q, 500, IF DOMAIN q.data # {} THEN "stale_data"
                                     ELSE "refresh_failed")]
               /\ UNCHANGED orders
          ELSE /\ orders' = [orders EXCEPT ![o] = SetFields(@, q.data)]
               /\ req' = [req EXCEPT ![r] = Finished(q, 200, "ok")]
     /\ UNCHANGED <<products, customers, order_items, calls, writes>>

\* A store with one order placed: user 3 bought the one unit of product 1 but
\* one, and the order is unassigned or assigned to staff member 2.
InitOrders ==
  /\ products =
       ( 1 :> [vendor_id |-> 1, price |-> ListPrice, stock_quantity |-> 1,
               is_active |-> TRUE] ) @@
       ( 2 :> [vendor_id |-> 1, price |-> ListPrice, stock_quantity |-> 1,
               is_active |-> FALSE] ) @@
       ( 3 :> [vendor_id |-> 2, price |-> ListPrice, stock_quantity |-> 1,
               is_active |-> TRUE] )
  /\ customers = ( 1 :> [vendor_id |-> 1, user_id |-> 3, email |-> Email(3)] )
  /\ \E staff \in {NoStaff, 2} :
       orders = ( 1 :> [vendor_id |-> 1, customer_id |-> 1,
                        status |-> "PENDING", total_amount |-> ListPrice,
                        assigned_staff_id |-> staff] )
  /\ order_items = ( 1 :> [order_id |-> 1, product_id |-> 1, quantity |-> 1,
                           unit_price |-> ListPrice, subtotal |-> ListPrice] )
  /\ req = [r \in Requests |-> IdleReq]
  /\ calls = 0
  /\ writes = 0

\* The callers and inputs of the requests that run beside the order updates:
\* the owner, the two staff members and a customer of vendor 1 act on orders
\* and products; the customer of vendor 2 places orders, naming a product of
\* its vendor or one of vendor 1.
OrderActors == {1, 2, 7, 3}
OtherBuyers == {5}
OtherItems ==
  [product_id : {1, 3}, quantity : {1}, unit_price : {ListPrice}]
PriceUpdates == {[price |-> 2 * ListPrice]}

\* Every order handler by its steps, two requests in flight, with
\* delete_order and the product writes in one step.
NextOrders ==
  \/ \E r \in Requests :
       \/ \E u \in OtherBuyers : create_order_begin(r, u)
       \/ create_order_new_customer(r)
       \/ \E st \in CreateStatuses : create_order_insert_order(r, st)
       \/ \E item \in OtherItems : create_order_item(r, item)
       \/ create_order_abort(r)
       \/ create_order_commit(r)
       \/ respond(r)
  \/ \E r \in Requests, u \in OrderActors, o \in OrderIds,
        data \in OrderUpdates :
       update_order_begin(r, u, o, data)
  \/ \E r \in Requests, u \in OrderActors, o \in OrderIds,
        st \in StatusInputs :
       update_order_status_begin(r, u, o, st)
  \/ \E r \in Requests, u \in OrderActors, o \in OrderIds,
        staff \in StaffInputs :
       assign_staff_begin(r, u, o, staff)
  \/ \E r \in Requests : order_commit(r)
  \/ \E u \in OrderActors, o \in OrderIds : delete_order(u, o)
  \/ \E u \in OrderActors, p \in ProductIds, data \in PriceUpdates :
       update_product(u, p, data)
  \/ \E u \in OrderActors, p \in ProductIds : update_stock(u, p, 0)

SpecOrders == InitOrders /\ [][NextOrders]_vars

\* ------------------------------------ create_order, every kind of item

\* OrderItemBase.quantity is any int: the request items of every product, in
\* the quantities -1 .. MaxQty.
SignedItems ==
  [product_id : ProductIds, quantity : -1 .. MaxQty, unit_price : {ListPrice}]

ItemBuyers == {3, 4}

\* A store whose products fail several checks at once: product 2 is inactive
\* and out of stock, product 3 is of vendor 2, inactive and out of stock.
InitItems ==
  /\ products =
       ( 1 :> [vendor_id |-> 1, price |-> ListPrice, stock_quantity |-> 1,
               is_active |-> TRUE] ) @@
       ( 2 :> [vendor_id |-> 1, price |-> ListPrice, stock_quantity |-> 0,
               is_active |-> FALSE] ) @@
       ( 3 :> [vendor_id |-> 2, price |-> ListPrice, stock_quantity |-> 0,
               is_active |-> FALSE] )
  /\ customers = ( 1 :> [vendor_id |-> 1, user_id |-> 3, email |-> Email(3)] )
  /\ orders = EmptyMap
  /\ order_items = EmptyMap
  /\ req = [r \in Requests |-> IdleReq]
  /\ calls = 0
  /\ writes = 0

\* create_order alone, one request after the other.
NextItems ==
  \E r \in SoloRequests :
    \/ \E u \in ItemBuyers : create_order_begin(r, u)
    \/ create_order_new_customer(r)
    \/ \E st \in CreateStatuses : create_order_insert_order(r, st)
    \/ \E item \in SignedItems : create_order_item(r, item)
    \/ create_order_abort(r)
    \/ create_order_commit(r)
    \/ respond(r)

SpecItems == InitItems /\ [][NextItems]_vars

\* -------------------------- status and assignment, one request at a time

\* status_data.get("status"): no status, a string that is no OrderStatus, and
\* every value of the enumeration.
AllStatusInputs == OrderStatus \cup {"", "BOGUS"}

\* The bodies of assign_staff: staff_id null, or an integer: 0, the ids of
\* StaffInputs, a user of vendor 2 and an id that names no user.
AssignBodies ==
  {[null |-> TRUE, id |-> 0]}
  \cup [null : {FALSE}, id : StaffInputs \cup {5, 8}]

\* staff_id = assign_data.get("staff_id") as "if staff_id:" sees it (lines
\* 347-348): None and 0 are both false, and NoStaff stands for either.
get_staff_id(body) == IF body.null \/ body.id = 0 THEN NoStaff ELSE body.id

\* OrderCreate bodies: without a status, or naming one.
StatusBodies == {"", "SHIPPED"}

\* OrderBase.status: OrderStatus = OrderStatus.PENDING, the value the
\* validated body has for a request without a status.
OrderBase_status(s) == IF s = "" THEN "PENDING" ELSE s

\* update_order_status, assign_staff and create_order by their steps, one
\* request after the other, on the store of InitOrders.
NextAdmin ==
  \E r \in SoloRequests :
    \/ \E u \in OrderActors, o \in OrderIds, st \in AllStatusInputs :
         update_order_status_begin(r, u, o, st)
    \/ \E u \in OrderActors, o \in OrderIds, body \in AssignBodies :
         assign_staff_begin(r, u, o, get_staff_id(body))
    \/ order_commit(r)
    \/ \E u \in ItemBuyers : create_order_begin(r, u)
    \/ create_order_new_customer(r)
    \/ \E s \in StatusBodies :
         create_order_insert_order(r, OrderBase_status(s))
    \/ \E item \in OtherItems : create_order_item(r, item)
    \/ create_order_abort(r)
    \/ create_order_commit(r)
    \/ respond(r)

SpecAdmin == InitOrders /\ [][NextAdmin]_vars

\* ================================================================ claims

Done(r) == req[r].pc = "done"

\* The request ended because one of its items failed a check.
ItemFailures ==
  {"product_not_found", "wrong_vendor", "not_active", "insufficient_stock"}
FailedOnItem(r) == Done(r) /\ req[r].detail \in ItemFailures

\* C1: when a create_order call fails on an item, the stock of every product
\* is the same after the call as before it, also for the items that passed
\* before the failing one (requests one after the other).
C1_StockUnchangedOnFailure ==
  \A r \in Requests :
    FailedOnItem(r) =>
      \A p \in DOMAIN req[r].before.products :
        /\ p \in DOMAIN products
        /\ products[p].stock_quantity
             = req[r].before.products[p].stock_quantity

\* C2: after a create_order call that fails on an item, the orders and the
\* order items are the ones there were before the call (requests one after
\* the other).
C2_NoRowsOnFailure ==
  \A r \in Requests :
    FailedOnItem(r) =>
      /\ orders = req[r].before.orders
      /\ order_items = req[r].before.order_items

\* A finished request that asked for quantity 1 of product 1, and nothing
\* else, when the stock of product 1 was 1.
LastUnit(r) ==
  /\ Done(r)
  /\ Len(req[r].items) = 1
  /\ req[r].items[1].product_id = 1
  /\ req[r].items[1].quantity = 1
  /\ req[r].before.products[1].stock_quantity = 1

Succeeded(r) == Done(r) /\ req[r].status_code = 201
OutOfStock(r) ==
  Done(r) /\ req[r].status_code = 400 /\ req[r].detail = "insufficient_stock"

\* C3: of two concurrent requests for the last unit of a product, exactly one
\* succeeds and the other fails with insufficient stock.
C3_OneWinsLastUnit ==
  \A r1, r2 \in Requests :
    (r1 # r2 /\ LastUnit(r1) /\ LastUnit(r2)) =>
      \/ Succeeded(r1) /\ OutOfStock(r2)
      \/ Succeeded(r2) /\ OutOfStock(r1)

\* C4: with create_order calls alone, sequential or interleaved, no product's
\* stock is negative, neither in the store nor in the session of a request
\* that has decremented it (a decrement below 0 is never accepted).
C4_StockNonNegative ==
  /\ \A p \in DOMAIN products : products[p].stock_quantity >= 0
  /\ \A r \in Requests :
       \A p \in DOMAIN req[r].loaded : req[r].loaded[p].stock_quantity >= 0

\* C4 witness: a request was refused the stock an order had taken: the
\* product is sold out, the order that took the stock is there, and the
\* refused request is done.
C4_Witness ==
  \E r \in Requests :
    /\ OutOfStock(r)
    /\ req[r].before.products[1].stock_quantity > 0
    /\ products[1].stock_quantity = 0
    /\ \E o \in DOMAIN orders :
         \E i \in ItemsOf(o) : order_items[i].product_id = 1

RECURSIVE SumSubtotals(_)
SumSubtotals(ids) ==
  IF ids = {} THEN 0
  ELSE LET i == CHOOSE x \in ids : TRUE
       IN order_items[i].subtotal + SumSubtotals(ids \ {i})

\* C5: an order that create_order has returned successfully, and that exists,
\* has total_amount equal to the sum of its items' subtotals, each subtotal
\* being quantity times unit price (stated for the order a finished request
\* has just returned, the first of the later states).
C5_TotalIsSumOfSubtotals ==
  \A r \in Requests :
    (Succeeded(r) /\ req[r].order_id \in DOMAIN orders) =>
      /\ orders[req[r].order_id].total_amount
           = SumSubtotals(ItemsOf(req[r].order_id))
      /\ \A i \in ItemsOf(req[r].order_id) :
           order_items[i].subtotal
             = order_items[i].quantity * order_items[i].unit_price

\* C6: every order item references an existing product, and the product's
\* vendor is the vendor of the item's order.
C6_ItemProductOfOrderVendor ==
  \A i \in DOMAIN order_items :
    /\ order_items[i].product_id \in DOMAIN products
    /\ order_items[i].order_id \in DOMAIN orders =>
         products[order_items[i].product_id].vendor_id
           = orders[order_items[i].order_id].vendor_id

\* C7: the unit_price of every order item a create_order call recorded is the
\* price the product had when the order was created (no handler changes a
\* price in SpecSeq, so that is the price at the beginning of the call).
C7_UnitPriceIsProductPrice ==
  \A r \in Requests :
    Succeeded(r) =>
      \A i \in ItemsOf(req[r].order_id) \ DOMAIN req[r].before.order_items :
        order_items[i].unit_price
          = req[r].before.products[order_items[i].product_id].price

\* A finished request, one of a sequence, that asked for one item, of an
\* active product of the caller's vendor.
SingleItemOrder(r) ==
  /\ Done(r)
  /\ Len(req[r].items) = 1
  /\ req[r].items[1].quantity >= 1
  /\ req[r].items[1].product_id \in DOMAIN req[r].before.products
  /\ LET product == req[r].before.products[req[r].items[1].product_id]
     IN /\ product.is_active
        /\ product.vendor_id = users[req[r].user].vendor_id

\* C8: a single-item order of quantity q against stock s succeeds exactly
\* when q <= s, and then the stock is s - q; when q > s it fails with
\* insufficient stock and the stock is still s.
C8_SingleItemOrder ==
  \A r \in Requests :
    SingleItemOrder(r) =>
      LET p == req[r].items[1].product_id
          q == req[r].items[1].quantity
          s == req[r].before.products[p].stock_quantity
      IN /\ Succeeded(r) <=> q <= s
         /\ q <= s => products[p].stock_quantity = s - q
         /\ q > s => OutOfStock(r) /\ products[p].stock_quantity = s

\* C8 witness: after a first order took stock, a second single-item order
\* asks for more than is left and is refused, the stock staying as it was.
C8_Witness ==
  \E r \in Requests :
    /\ SingleItemOrder(r)
    /\ OutOfStock(r)
    /\ req[r].items[1].quantity = 2
    /\ req[r].before.products[1].stock_quantity = 1
    /\ req[r].before.orders # EmptyMap
    /\ products[1].stock_quantity = 1

\* C9: a create_order request that names a product of another vendor fails
\* with 403 and changes nothing: customers, orders, order items and products
\* are as before the request (requests one after the other).
C9_CrossTenantChangesNothing ==
  \A r \in Requests :
    (Done(r) /\ req[r].detail = "wrong_vendor") =>
      /\ req[r].status_code = 403
      /\ Store = req[r].before

\* The order belongs to a Customer record of user u.
OwnOrder(u, o) ==
  /\ o \in DOMAIN orders
  /\ orders[o].customer_id \in DOMAIN customers
  /\ customers[orders[o].customer_id].user_id = u

\* C10: every order that list_orders, my_orders or get_order returns to a
\* CUSTOMER-role caller belongs to the Customer record of that caller.
C10_CustomerSeesOwnOrders ==
  \A u \in UserIds :
    users[u].role = "CUSTOMER" =>
      /\ \A o \in list_orders(u) : OwnOrder(u, o)
      /\ \A o \in my_orders(u) : OwnOrder(u, o)
      /\ \A o \in OrderIds : \A x \in get_order(u, o) : OwnOrder(u, x)

\* C10 witness: two customers of one vendor have an order each, and each is
\* given its own order and not the other's.
C10_Witness ==
  \E o3, o4 \in DOMAIN orders :
    /\ OwnOrder(3, o3) /\ OwnOrder(4, o4)
    /\ orders[o3].vendor_id = orders[o4].vendor_id
    /\ list_orders(3) = {o3} /\ list_orders(4) = {o4}
    /\ get_order(3, o3) = {o3} /\ get_order(3, o4) = {}
    /\ my_orders(4) = {o4}

\* ---- the order updates

StaffUpdates == {"update_order", "update_order_status"}

\* The order is assigned to a staff member other than u.
AssignedToOther(order, u) ==
  /\ order.assigned_staff_id \in UserIds \ {u}
  /\ users[order.assigned_staff_id].role = "STAFF"

\* Request r is answered in this step, and its commit wrote to the order.
Applied(r) ==
  /\ req[r].pc = "commit"
  /\ req'[r].pc = "done"
  /\ req'[r].status_code = 200
  /\ DOMAIN req[r].data # {}

\* Request r arrives in this step and is answered or about to commit.
Arrives(r) == req[r].pc = "idle" /\ req'[r].pc \in {"done", "commit"}

\* C11: a STAFF caller's update_order or update_order_status of an order of
\* its tenant that is assigned to another staff member is refused with 403
\* and changes nothing, and no update of a STAFF caller is written to an
\* order that is assigned to another staff member at the time of the write
\* (an assign_staff of the owner may run between the steps of the update).
C11_StaffUpdatesOwnOrders ==
  [][\A r \in Requests :
       /\ ( /\ Arrives(r)
            /\ req'[r].op \in StaffUpdates
            /\ users[req'[r].user].role = "STAFF"
            /\ req'[r].order_id \in DOMAIN orders
            /\ check_tenant_access(orders[req'[r].order_id], req'[r].user)
            /\ AssignedToOther(orders[req'[r].order_id], req'[r].user) )
          => ( /\ req'[r].pc = "done"
               /\ req'[r].status_code = 403
               /\ orders' = orders )
       /\ ( /\ Applied(r)
            /\ req[r].op \in StaffUpdates
            /\ users[req[r].user].role = "STAFF" )
          => ~AssignedToOther(orders[req[r].order_id], req[r].user)
    ]_vars

\* ---- check_tenant_access

\* The objects check_tenant_access may be given, by the attributes the models
\* give them: a Product, a User (vendor_id nullable), an Order with its
\* customer, a Customer with its user, an object that has only a customer or
\* only a user (which may be None), an OrderItem, and None.
Entities ==
  [vendor_id : 1 .. 2]
  \cup [vendor_id : {NoVendor}]
  \cup [vendor_id : 1 .. 2, customer : [vendor_id : 1 .. 2]]
  \cup [vendor_id : 1 .. 2, user : [vendor_id : 0 .. 2]]
  \cup [customer : {None} \cup [vendor_id : 1 .. 2]]
  \cup [user : {None} \cup [vendor_id : 0 .. 2]]
  \cup {[order_id |-> 1, product_id |-> 1], None}

\* The rows of the store.
Rows(table) == {table[i] : i \in DOMAIN table}
StoreRows == Rows(products) \cup Rows(customers) \cup Rows(orders)

\* The tenant that owns an object: its own vendor id, or else the one of its
\* customer, or else the one of its user; NoVendor when there is none.
AttrVendor(obj) == IF HasAttr(obj, "vendor_id") THEN obj.vendor_id ELSE NoVendor
OwningTenant(obj) ==
  LET mine == AttrVendor(obj)
      customer == IF HasAttr(obj, "customer") THEN AttrVendor(obj.customer)
                  ELSE NoVendor
      user == IF HasAttr(obj, "user") THEN AttrVendor(obj.user) ELSE NoVendor
  IN IF mine # NoVendor THEN mine
     ELSE IF customer # NoVendor THEN customer
     ELSE user

\* C12: check_tenant_access(entity, caller) is true exactly when the entity's
\* owning tenant id and the caller's tenant id are both present and equal,
\* and false (it has a value for every entity) when either is absent; it is
\* a function of its arguments alone.
C12_CheckTenantAccess ==
  \A obj \in Entities \cup StoreRows : \A u \in UserIds :
    /\ check_tenant_access(obj, u) \in BOOLEAN
    /\ check_tenant_access(obj, u)
         <=> ( /\ OwningTenant(obj) # NoVendor
               /\ users[u].vendor_id # NoVendor
               /\ OwningTenant(obj) = users[u].vendor_id )

\* C12 witness: a staff member's request for an order of another vendor was
\* refused on check_tenant_access, which grants the same caller an order of
\* its own vendor.
C12_Witness ==
  \E r \in Requests : \E o \in DOMAIN orders :
    /\ Done(r)
    /\ req[r].op \in StaffUpdates
    /\ require_staff(req[r].user)
    /\ req[r].status_code = 403
    /\ req[r].order_id \in DOMAIN req[r].before.orders
    /\ ~check_tenant_access(req[r].before.orders[req[r].order_id], req[r].user)
    /\ check_tenant_access(orders[o], req[r].user)

\* ---- tenant isolation

CustomerIds == 1 .. 3
OrderWrites == {"update_order", "update_order_status", "assign_staff"}

SameTenant(row, u) == row.vendor_id = users[u].vendor_id

\* What the list and get endpoints give caller u.
ProductsSeen(u) ==
  list_products(u) \cup UNION {get_product(u, p) : p \in ProductIds}
CustomersSeen(u) ==
  list_customers(u) \cup UNION {get_customer(u, c) : c \in CustomerIds}
OrdersSeen(u) ==
  list_orders(u) \cup my_orders(u) \cup UNION {get_order(u, o) : o \in OrderIds}
UsersSeen(u) == list_users(u) \cup UNION {get_user(u, x) : x \in UserIds}

ReadsIsolated ==
  \A u \in UserIds :
    /\ \A p \in ProductsSeen(u) : SameTenant(products[p], u)
    /\ \A c \in CustomersSeen(u) : SameTenant(customers[c], u)
    /\ \A o \in OrdersSeen(u) : SameTenant(orders[o], u)
    /\ \A x \in UsersSeen(u) : SameTenant(users[x], u)

\* The rows of a table that a step changes or deletes.
Touched(table, table2) ==
  {i \in DOMAIN table : i \notin DOMAIN table2 \/ table2[i] # table[i]}

WritesIsolated ==
  /\ \A r \in Requests :
       /\ ( /\ Arrives(r)
            /\ req'[r].op \in OrderWrites
            /\ req'[r].order_id \in DOMAIN orders
            /\ ~SameTenant(orders[req'[r].order_id], req'[r].user) )
          => ( /\ req'[r].pc = "done"
               /\ req'[r].status_code = 403
               /\ Store' = Store )
       /\ ( req[r].pc = "commit" /\ req'[r].pc = "done" )
          => \A o \in Touched(orders, orders') :
               SameTenant(orders[o], req[r].user)
  /\ writes' # writes
       => \E u \in OrderActors :
            /\ \A o \in Touched(orders, orders') : SameTenant(orders[o], u)
            /\ \A p \in Touched(products, products') :
                 SameTenant(products[p], u)

\* C13: no list or get endpoint returns a product, customer, order or user
\* of another tenant than the caller's, and no update or delete endpoint
\* changes an order or product of another tenant: such a request is refused
\* with 403 and the store is unchanged.
C13_TenantIsolation == []ReadsIsolated /\ [][WritesIsolated]_vars

\* ---- staff assignment

\* C14: an order's assigned_staff_id is changed only by a request of a
\* STORE_OWNER caller: every step that gives an existing order another
\* assigned_staff_id is the commit of an owner's request.
C14_OnlyOwnerAssigns ==
  [][\A o \in DOMAIN orders \cap DOMAIN orders' :
       orders'[o].assigned_staff_id # orders[o].assigned_staff_id
         => \E r \in Requests :
              /\ req[r].pc = "commit"
              /\ req'[r].pc = "done"
              /\ req[r].order_id = o
              /\ users[req[r].user].role = "STORE_OWNER"
    ]_vars

\* C15: every order's assigned_staff_id is null or names an existing user of
\* the order's tenant whose role is STAFF or STORE_OWNER.
C15_AssigneeIsStaffOfTenant ==
  \A o \in DOMAIN orders :
    \/ orders[o].assigned_staff_id = NoStaff
    \/ /\ orders[o].assigned_staff_id \in UserIds
       /\ users[orders[o].assigned_staff_id].vendor_id = orders[o].vendor_id
       /\ users[orders[o].assigned_staff_id].role \in {"STAFF", "STORE_OWNER"}

\* ---- the Customer record of a caller

\* Two requests of one user were both about to create its Customer record.
RacedForCustomer(r1, r2) ==
  /\ r1 # r2
  /\ req[r1].op = "create_order" /\ req[r2].op = "create_order"
  /\ req[r1].user = req[r2].user
  /\ req[r1].pc # "idle" /\ req[r2].pc # "idle"
  /\ CustomerOf(req[r1].user) \cap DOMAIN req[r1].before.customers = {}
  /\ CustomerOf(req[r2].user) \cap DOMAIN req[r2].before.customers = {}

\* C16: there is at most one Customer record per (tenant id, user id), also
\* when create_order requests of one user run concurrently and when the
\* user's Customer record was there before (user 3).
C16_OneCustomerPerUser ==
  \A c1, c2 \in DOMAIN customers :
    ( /\ customers[c1].vendor_id = customers[c2].vendor_id
      /\ customers[c1].user_id = customers[c2].user_id ) => c1 = c2

\* C16 witness: two requests of one user without a Customer record raced,
\* one of them was stopped by the unique constraint, and the user has one
\* Customer record.
C16_Witness ==
  \E r1, r2 \in Requests :
    /\ RacedForCustomer(r1, r2)
    /\ Done(r2) /\ req[r2].detail = "integrity_error"
    /\ Cardinality(CustomerOf(req[r1].user)) = 1

\* C17: no create_order request is answered with the duplicate-key failure
\* of the Customer insert: the request that loses the race looks the record
\* up and goes on.
C17_DuplicateKeyNeverSurfaces ==
  \A r \in Requests : ~(Done(r) /\ req[r].detail = "integrity_error")

\* C18: the store never holds an order of a create_order call that is still
\* working on a non-empty item list: the order appears only with all its
\* items and its total, at the one commit of the call.
C18_OrderCommitsWithItems ==
  \A r \in Requests :
    ( /\ req[r].op = "create_order"
      /\ req[r].pc \in {"items", "abort"}
      /\ Len(req[r].items) >= 1 )
    => req[r].order_id \notin DOMAIN orders

\* ---- not found before forbidden

\* C19: every operation on one object answers 404 when the id names no
\* object, whoever calls: get, update and delete of an order,
\* update_order_status and assign_staff, get, update, delete and update_stock
\* of a product.
C19_NotFoundFirst ==
  \A u \in UserIds :
    /\ \A o \in OrderIds \ DOMAIN orders :
         /\ get_order_response(u, o) = 404
         /\ update_order_response(u, o) = 404
         /\ delete_order_response(u, o) = 404
         /\ \A st \in StatusInputs :
              update_order_status_response(u, o, st) = 404
         /\ \A staff \in StaffInputs : assign_staff_response(u, o, staff) = 404
    /\ \A p \in ProductIds \ DOMAIN products :
         /\ get_product_response(u, p) = 404
         /\ update_product_response(u, p) = 404
         /\ delete_product_response(u, p) = 404
         /\ update_stock_response(u, p) = 404

\* ---- order items are immutable

\* A step of update_product or update_stock (the product writes that leave
\* the orders alone) or the commit of update_order, update_order_status or
\* assign_staff.
UpdateStep ==
  \/ writes' # writes /\ DOMAIN orders' = DOMAIN orders
  \/ \E r \in Requests :
       /\ req[r].op \in OrderWrites
       /\ req[r].pc = "commit"
       /\ req'[r].pc = "done"

\* C20: no step changes the unit_price, quantity or subtotal of an order item
\* that is there before and after it, and update_product, update_stock,
\* update_order, update_order_status and assign_staff leave the whole
\* order_items table as it is.
C20_OrderItemsImmutable ==
  [][ /\ \A i \in DOMAIN order_items \cap DOMAIN order_items' :
           /\ order_items'[i].unit_price = order_items[i].unit_price
           /\ order_items'[i].quantity = order_items[i].quantity
           /\ order_items'[i].subtotal = order_items[i].subtotal
      /\ UpdateStep => order_items' = order_items
    ]_vars

\* C20 witness: the price of product 1 was changed after it was sold, an
\* update of the order was committed, and the order's item still carries the
\* price and subtotal of the sale.
C20_Witness ==
  /\ products[1].price = 2 * ListPrice
  /\ \E r \in Requests :
       /\ Done(r) /\ req[r].op \in OrderWrites /\ req[r].status_code = 200
       /\ DOMAIN req[r].data # {}
       /\ req[r].before.products[1].price = 2 * ListPrice
       /\ \E i \in ItemsOf(req[r].order_id) :
            /\ order_items[i].product_id = 1
            /\ order_items[i].unit_price = ListPrice
            /\ order_items[i].subtotal = ListPrice * order_items[i].quantity

\* ---- stock and quantities

\* C21: whatever create_order, update_product and update_stock calls were
\* made, every product's stock_quantity is at least 0.
C21_StockAtLeastZero ==
  \A p \in DOMAIN products : ~(products[p].stock_quantity < 0)

\* C22: every persisted order item has a quantity above 0, and no step of
\* create_order raises the stock of a product (a request item of quantity 0
\* or less takes no stock and leaves no order item).
C22_QuantityPositive ==
  /\ [](\A i \in DOMAIN order_items : order_items[i].quantity > 0)
  /\ [][\A p \in DOMAIN products \cap DOMAIN products' :
          products'[p].stock_quantity <= products[p].stock_quantity]_vars

\* ---- deleting

OwnerOf(row, u) == users[u].role = "STORE_OWNER" /\ SameTenant(row, u)

\* C23: delete_product and delete_order of an existing product or order by a
\* caller who is not the STORE_OWNER of its tenant answer 403, and a step of
\* delete_product or delete_order that changes the store is the call of the
\* owner of the deleted row's tenant.
C23_OnlyOwnerDeletes ==
  /\ [](\A u \in UserIds :
          /\ \A o \in DOMAIN orders :
               ~OwnerOf(orders[o], u) => delete_order_response(u, o) = 403
          /\ \A p \in DOMAIN products :
               ~OwnerOf(products[p], u) => delete_product_response(u, p) = 403)
  /\ [][\A u \in UserIds :
          /\ \A o \in OrderIds :
               (delete_order(u, o) /\ orders' # orders)
                 => OwnerOf(orders[o], u)
          /\ \A p \in ProductIds :
               (delete_product(u, p) /\ products' # products)
                 => OwnerOf(products[p], u)
       ]_vars

\* C23 witness: the owner has deleted an order that create_order had placed,
\* while the staff members and the customers of the tenant are refused the
\* deletion of the order that is left and of the tenant's products.
C23_Witness ==
  /\ writes = 1
  /\ \E r \in Requests :
       /\ Succeeded(r)
       /\ req[r].order_id \notin DOMAIN orders
  /\ \E o \in DOMAIN orders : \E p \in DOMAIN products :
       /\ SameTenant(orders[o], 2) /\ SameTenant(products[p], 2)
       /\ \A u \in {2, 7, 3, 4} :
            /\ delete_order_response(u, o) = 403
            /\ delete_product_response(u, p) = 403

\* ---- what staff sees

\* C24: neither list_orders nor get_order gives a STAFF caller an order that
\* is assigned to another staff member.
C24_StaffSeesOwnOrUnassigned ==
  \A u \in UserIds :
    users[u].role = "STAFF" =>
      \A o \in list_orders(u) \cup UNION {get_order(u, x) : x \in OrderIds} :
        ~AssignedToOther(orders[o], u)

\* C25: a delete_order that is granted (204, the owner of the order's
\* tenant) removes the order and every order item of the order, and leaves
\* the products, with their stock, the other orders and the other orders'
\* items as they are.
C25_DeleteOrderCascades ==
  [][\A u \in UserIds : \A o \in OrderIds :
       (delete_order(u, o) /\ delete_order_response(u, o) = 204)
         => /\ OwnerOf(orders[o], u)
            /\ o \notin DOMAIN orders'
            /\ \A i \in DOMAIN order_items' : order_items'[i].order_id # o
            /\ products' = products
            /\ orders' = Remove(orders, {o})
            /\ \A i \in DOMAIN order_items :
                 order_items[i].order_id # o
                   => i \in DOMAIN order_items' /\ order_items'[i] = order_items[i]
    ]_vars

\* C25 witness: an order that took one or more units of product 1 was
\* deleted by the owner: the order and its items are gone and product 1 has
\* the stock the order left.
C25_Witness ==
  /\ writes = 1
  /\ \E r \in Requests :
       /\ Succeeded(r)
       /\ Len(req[r].items) = 1
       /\ req[r].items[1].product_id = 1
       /\ req[r].before.orders = EmptyMap
       /\ req[r].before.order_items = EmptyMap
       /\ orders = EmptyMap
       /\ order_items = EmptyMap
       /\ products[1].stock_quantity
            = req[r].before.products[1].stock_quantity
                - req[r].items[1].quantity
       /\ products[1].stock_quantity
            < req[r].before.products[1].stock_quantity

\* The caller may update the status of the order: the owner of its tenant, or
\* a staff member of its tenant when the order is unassigned or assigned to
\* that staff member.
MayUpdateStatus(u, o) ==
  /\ o \in DOMAIN orders
  /\ SameTenant(orders[o], u)
  /\ \/ users[u].role = "STORE_OWNER"
     \/ /\ users[u].role = "STAFF"
        /\ orders[o].assigned_staff_id \in {NoStaff, u}

\* The order as the request at its commit intends it: the loaded row with the
\* attributes the handler has set.
Intended(q) == SetFields(q.before.orders[q.order_id], q.data)

\* C26: update_order_status by an authorized caller with a value v of the
\* enumeration is accepted whatever the current status, and its commit answers
\* 200 and leaves the order with status v and its other fields as they were;
\* create_order inserts the order with the status of the request, PENDING
\* when the request has none, and its commit keeps that status.
C26_AnyStatusTransition ==
  [][\A r \in SoloRequests :
       /\ \A u \in UserIds, o \in OrderIds, v \in OrderStatus :
            (update_order_status_begin(r, u, o, v) /\ MayUpdateStatus(u, o))
              => /\ req'[r].pc = "commit"
                 /\ Intended(req'[r]) = [orders[o] EXCEPT !.status = v]
       /\ (order_commit(r) /\ req[r].op = "update_order_status")
            => /\ req'[r].status_code = 200
               /\ orders' = [orders EXCEPT ![req[r].order_id] = Intended(req[r])]
       /\ \A s \in StatusBodies :
            create_order_insert_order(r, OrderBase_status(s))
              => /\ DOMAIN orders' = DOMAIN orders \cup {req'[r].order_id}
                 /\ req'[r].order_id \notin DOMAIN orders
                 /\ orders'[req'[r].order_id].status
                      = (IF s = "" THEN "PENDING" ELSE s)
       /\ create_order_commit(r)
            => \A o \in DOMAIN orders' : orders'[o].status = orders[o].status
    ]_vars

\* C26 witness: a staff member has set an order that was DELIVERED or
\* CANCELLED back to PENDING.
C26_Witness ==
  \E r \in SoloRequests :
    /\ Done(r)
    /\ req[r].op = "update_order_status"
    /\ req[r].status_code = 200
    /\ users[req[r].user].role = "STAFF"
    /\ req[r].before.orders[req[r].order_id].status
         \in {"DELIVERED", "CANCELLED"}
    /\ orders[req[r].order_id].status = "PENDING"

\* The users an owner may assign an order to: the STAFF users of the owner's
\* vendor.
StaffOf(u) ==
  {x \in UserIds :
     users[x].role = "STAFF" /\ users[x].vendor_id = users[u].vendor_id}

\* C30: assign_staff by the owner of the order's tenant: with a null staff
\* id, or with the id of a staff member of the tenant, it is accepted and its
\* commit answers 200 and changes assigned_staff_id, to none or to that id,
\* and no other field of the order; with any other staff id it answers 404
\* and the orders are as they were.
C30_AssignStaff ==
  [][\A r \in SoloRequests :
       /\ \A u \in UserIds, o \in OrderIds, body \in AssignBodies :
            (assign_staff_begin(r, u, o, get_staff_id(body))
               /\ o \in DOMAIN orders /\ OwnerOf(orders[o], u))
              => IF body.null \/ body.id \in StaffOf(u)
                   THEN /\ req'[r].pc = "commit"
                        /\ Intended(req'[r])
                             = [orders[o] EXCEPT
                                  !.assigned_staff_id = get_staff_id(body)]
                   ELSE /\ Done(r)'
                        /\ req'[r].status_code = 404
                        /\ orders' = orders
       /\ (order_commit(r) /\ req[r].op = "assign_staff")
            => /\ req'[r].status_code = 200
               /\ orders' = [orders EXCEPT ![req[r].order_id] = Intended(req[r])]
    ]_vars

\* The quantity the items before the k-th of a request took of product p.
RECURSIVE Taken(_, _, _)
Taken(items, k, p) ==
  IF k <= 1 THEN 0
  ELSE Taken(items, k - 1, p)
       + (IF items[k - 1].product_id = p THEN items[k - 1].quantity ELSE 0)

\* The first check the k-th item of the request fails, "" when it passes
\* them all, by the products as they were when the call began and what the
\* items before it took.
FirstFailedCheck(q, k) ==
  LET item == q.items[k]
      p == item.product_id
      before == q.before.products
  IN IF p \notin DOMAIN before THEN "product_not_found"
     ELSE IF before[p].vendor_id # users[q.user].vendor_id THEN "wrong_vendor"
     ELSE IF ~before[p].is_active THEN "not_active"
     ELSE IF before[p].stock_quantity - Taken(q.items, k, p) < item.quantity
       THEN "insufficient_stock"
     ELSE ""

ErrorCode(detail) ==
  CASE detail = "product_not_found" -> 404
    [] detail = "wrong_vendor" -> 403
    [] detail = "not_active" -> 400
    [] detail = "insufficient_stock" -> 400

\* C27: a create_order call that has left its loop over the items either
\* failed on the last item it examined, with the error of the first check
\* that item fails (not found, then tenant, then active, then stock), every
\* item before it passing every check, or examined items that all pass and
\* answered 201.
C27_FirstFailingCheck ==
  \A r \in SoloRequests :
    LET q == req[r]
        n == Len(q.items)
    IN (q.op = "create_order" /\ n > 0 /\ q.pc \in {"abort", "done"}) =>
         /\ \A k \in 1 .. (n - 1) : FirstFailedCheck(q, k) = ""
         /\ IF FirstFailedCheck(q, n) = ""
              THEN q.pc = "done" /\ q.status_code = 201
              ELSE /\ q.detail = FirstFailedCheck(q, n)
                   /\ q.status_code = ErrorCode(q.detail)

\* C27 witness: a call whose first item passed and whose second item names a
\* product that is inactive and out of stock: it answered 400, not active.
C27_Witness ==
  \E r \in SoloRequests :
    /\ Done(r)
    /\ Len(req[r].items) = 2
    /\ req[r].items[1].product_id = 1
    /\ req[r].items[2].product_id = 2
    /\ req[r].items[2].quantity
         > req[r].before.products[2].stock_quantity
    /\ ~req[r].before.products[2].is_active
    /\ req[r].status_code = 400
    /\ req[r].detail = "not_active"

\* The sum of the quantities of the order items of table that reference
\* product p.
RECURSIVE SumQuantities(_, _, _)
SumQuantities(table, ids, p) ==
  IF ids = {} THEN 0
  ELSE LET i == CHOOSE x \in ids : TRUE
       IN (IF table[i].product_id = p THEN table[i].quantity ELSE 0)
          + SumQuantities(table, ids \ {i}, p)

Sold(table, p) == SumQuantities(table, DOMAIN table, p)

\* C28: with create_order calls alone, interleaved, no step changes the sum
\* of a product's stock and the quantities of the persisted order items that
\* reference it: the sum stays the product's initial stock (there is no
\* order item at the beginning), and what was sold never exceeds it.
C28_StockConserved ==
  [][\A p \in DOMAIN products :
       products'[p].stock_quantity + Sold(order_items', p)
         = products[p].stock_quantity + Sold(order_items, p)
    ]_vars

\* C29: the order a create_order call inserts has the caller's vendor and
\* the Customer row of the caller in that vendor; in every state an order's
\* customer exists and is of the order's vendor; and a call by a user without
\* a vendor ends at once with 403, no customer and no order added.
C29_OrderOfCallerTenant ==
  /\ [](\A o \in DOMAIN orders :
          /\ orders[o].customer_id \in DOMAIN customers
          /\ customers[orders[o].customer_id].vendor_id = orders[o].vendor_id)
  /\ [][\A r \in Requests :
          /\ \A st \in CreateStatuses :
               create_order_insert_order(r, st)
                 => LET o == req'[r].order_id IN
                    /\ o \notin DOMAIN orders
                    /\ DOMAIN orders' = DOMAIN orders \cup {o}
                    /\ orders'[o].vendor_id = users[req[r].user].vendor_id
                    /\ orders'[o].customer_id \in CustomerOf(req[r].user)
          /\ \A u \in UserIds :
               (create_order_begin(r, u) /\ users[u].vendor_id = NoVendor)
                 => /\ Done(r)'
                    /\ req'[r].status_code = 403
                    /\ customers' = customers
                    /\ orders' = orders
       ]_vars

\* C29 witness: the customer of vendor 2 has an order, of vendor 2 and of the
\* Customer row made for that user, and the user without a vendor was
\* refused with 403.
C29_Witness ==
  /\ \E o \in DOMAIN orders :
       /\ orders[o].vendor_id = 2
       /\ orders[o].customer_id \in CustomerOf(5)
       /\ orders[o].customer_id # 1
  /\ \E r \in Requests :
       /\ Done(r)
       /\ req[r].user = 6
       /\ req[r].status_code = 403
       /\ req[r].before.customers = customers

====
